---- MODULE Spec2Model ----
(***************************************************************************)
(* The directory server of secmsg (src/src/server.rs).                     *)
(*                                                                         *)
(* The main endpoint spawns one thread per accepted connection; every      *)
(* thread runs handler(): receive_message, create_response (one of         *)
(* login_response, register_response, connect_response, each working on    *)
(* the shared HashMap behind one Mutex), send_response.  The bootstrap     *)
(* endpoint runs pub_key_handler() in the accept loop's own thread.        *)
(*                                                                         *)
(* Three specifications share the actions:                                 *)
(*   Spec       the main endpoint, all request variants over two handles,  *)
(*              starting from the empty directory;                         *)
(*   SpecRoute  the main endpoint answering Connect requests against a     *)
(*              directory of up to four records;                           *)
(*   SpecBoot   the bootstrap loop beside the main endpoint, on which      *)
(*              clients register one handle.                               *)
(***************************************************************************)
EXTENDS Integers, Sequences, FiniteSets, TLC

\* Main-endpoint connections open at the same time (the code sets no limit).
NumConns == 2

\* generate_route: cmp::min(3, users.len())
RelayHops == 3

Conns == 1..NumConns

\* Clients connecting to the bootstrap endpoint at the same time.
NumBootConns == 2

BootConns == 1..NumBootConns

Handles == {"alice", "bob"}
RouteHandles == {"alice", "bob", "carol", "dave"}
Passwords == {"pw1", "pw2"}
Keys == {"keyA", "keyB"}
IPs == {"10.0.0.1", "10.0.0.2"}

\* Every client host holds one key pair and sends its public key in its requests.
ClientKey(ip) == IF ip = "10.0.0.1" THEN "keyA" ELSE "keyB"

\* The frames a client at ip can send, out of frames.
FramesFrom(ip, frames) == {f \in frames : f.key \in {"", ClientKey(ip)}}

\* The server's public key, read or generated once in main().
pub_key == "serverPub"

VARIABLES
    users,    \* the HashMap<String, KnownUser> behind the Mutex
    order,    \* the order in which users.values() yields the map's keys
    mutex,    \* the connection whose thread holds the Mutex, 0 when free
    pc,       \* where each connection's handler thread is
    peer,     \* stream.peer_addr() of each connection
    req,      \* the frame each handler received
    found,    \* users.get(..) as seen inside the critical section
    snap,     \* the directory at the moment the handler took the Mutex
    prior,    \* the connections already ended when this one was accepted
    resp,     \* the Message the handler built
    sent,     \* the response frame written to the stream
    bst,      \* each bootstrap connection: idle, waiting in the listener, handling
    bpc,      \* where the bootstrap loop is
    bpeer,    \* peer address of the bootstrap connection being handled
    breq,     \* the frame the bootstrap connection sent
    bsent,    \* the response frame written to the bootstrap connection
    fpc,      \* framing: "off", or where one frame is: write, read, done
    fdata,    \* framing: the payload handed to send_response
    wire,     \* framing: the bytes written to the stream
    fgot      \* framing: what the reader of the stream returned

mainVars == <<users, order, mutex, pc, peer, req, found, snap, prior, resp, sent>>
bootVars == <<bst, bpc, bpeer, breq, bsent>>
frameVars == <<fpc, fdata, wire, fgot>>
vars == <<users, order, mutex, pc, peer, req, found, snap, prior, resp, sent,
          bst, bpc, bpeer, breq, bsent, fpc, fdata, wire, fgot>>

----------------------------------------------------------------------------
(* Data *)

Min(a, b) == IF a < b THEN a ELSE b

Perms(S) == {s \in [1..Cardinality(S) -> S] : \A i, j \in DOMAIN s : s[i] = s[j] => i = j}

EmptyMap == [h \in {} |-> {}]

KnownUser_new(handle, password, addr, key) ==
    [handle |-> handle, password |-> password, addr |-> addr, public_key |-> key]

\* A frame as it arrives: a request variant, or one of the ways a frame fails.
Frame(kind, handle, password, key) ==
    [kind |-> kind, handle |-> handle, password |-> password, key |-> key]

NoFrame == Frame("None", "", "", "")

LoginFrames(H) == {Frame("Login", h, p, k) : h \in H, p \in Passwords, k \in Keys}
RegisterFrames(H) == {Frame("Register", h, p, k) : h \in H, p \in Passwords, k \in Keys}
ConnectFrames(H) == {Frame("Connect", h, "", k) : h \in H, k \in Keys}
PublicKeyFrames == {Frame("PublicKey", "", "", k) : k \in Keys}
\* A stream closed early, a ciphertext that does not decrypt, a plaintext that
\* does not decode, and a well-formed message that is not a request.
BadFrames == {Frame(kind, "", "", "") : kind \in {"Truncated", "Undecryptable", "Undecodable", "ToUser"}}

MainFrames == LoginFrames(Handles) \cup RegisterFrames(Handles) \cup ConnectFrames(Handles)
                \cup PublicKeyFrames \cup BadFrames

\* ResponseType variants
ResponseType_User(handle, addr, key) ==
    [tag |-> "User", handle |-> handle, addr |-> addr, public_key |-> key]
ResponseType_Error(msg) == [tag |-> "Error", msg |-> msg]
ResponseType_Connection(route) == [tag |-> "Connection", route |-> route]
ResponseType_PublicKey(key) == [tag |-> "PublicKey", key |-> key]

\* Message::new(MessageType::User(ToUser::ServerResponse(outcome)), route, crypto):
\* the outcome sealed against the route.
Message_new(outcome, route) == [outcome |-> outcome, route |-> route]

NoMessage == Message_new([tag |-> "None"], <<>>)

----------------------------------------------------------------------------
(* Pure functions of server.rs *)

addr_to_string(ip) == ip \o ":5000"

gen_route(user_ip, key) == << <<user_ip, key>> >>

\* The relays are picked anew on every call (here: by the calling thread).
generate_route_per_call(us, ord, dest) ==
    LET n == Min(RelayHops, Cardinality(DOMAIN us))
        m == Len(ord)
        pick(i) == IF mutex % 2 = 0 THEN ord[m + 1 - i] ELSE ord[i]
    IN  <<dest>> \o [i \in 1..n |-> <<us[pick(i)].addr, us[pick(i)].public_key>>]

\* The destination's own record is skipped when the relays are picked.
generate_route_skip_dest(us, ord, dest) ==
    LET others == SelectSeq(ord, LAMBDA h : <<us[h].addr, us[h].public_key>> # dest)
        n == Min(RelayHops, Len(others))
    IN  <<dest>> \o [i \in 1..n |-> <<us[others[i]].addr, us[others[i]].public_key>>]

\* One relay short: min(3, len - 1).
generate_route_short(us, ord, dest) ==
    LET n == Min(RelayHops, Cardinality(DOMAIN us) - 1)
    IN  <<dest>> \o [i \in 1..n |-> <<us[ord[i]].addr, us[ord[i]].public_key>>]

\* users.values().take(n): the first n records in the map's iteration order.
generate_route(us, ord, dest) ==
    LET n == Min(RelayHops, Cardinality(DOMAIN us))
    IN  <<dest>> \o [i \in 1..n |-> <<us[ord[i]].addr, us[ord[i]].public_key>>]

\* users.get(&handle) as an Option
users_get(us, handle) == IF handle \in DOMAIN us THEN <<us[handle]>> ELSE <<>>

\* The record is stored under the address it came from.
users_insert_by_addr(us, key, value) ==
    [h \in DOMAIN us \cup {value.addr} |-> IF h = value.addr THEN value ELSE us[h]]

\* users.insert(key, value)
users_insert(us, key, value) ==
    [h \in DOMAIN us \cup {key} |-> IF h = key THEN value ELSE us[h]]

\* receive_message: "panic" when read_exact, decrypt or json::decode fails
receive_message(frame) ==
    IF frame.kind \in {"Truncated", "Undecryptable", "Undecodable"} THEN "panic" ELSE "ok"

\* receive_unencrypted_message_type: no decryption on the bootstrap endpoint
receive_unencrypted_message_type(frame) ==
    IF frame.kind \in {"Truncated", "Undecodable"} THEN "panic" ELSE "ok"

\* create_response: Err(()) for PublicKey and for anything that is not
\* MessageType::Server; handler() unwraps it.
\* A message that is not a request is answered like a Connect.
create_response_lenient(msg) ==
    IF msg.kind \in {"Login", "Register", "Connect", "ToUser"} THEN "Ok" ELSE "Err"

create_response(msg) ==
    IF msg.kind \in {"Login", "Register", "Connect"} THEN "Ok" ELSE "Err"

\* The credential is never compared.
login_response_unchecked(username, password, u, usr_ip, key) ==
    LET route == gen_route(usr_ip, key)
    IN  IF u # <<>>
        THEN Message_new(ResponseType_User(u[1].handle, usr_ip, u[1].public_key), route)
        ELSE Message_new(ResponseType_Error("User does not exist."), route)

\* The view carries the stored address instead of the requester's.
login_response_stored_addr(username, password, u, usr_ip, key) ==
    LET route == gen_route(usr_ip, key)
    IN  IF u # <<>>
        THEN IF password = u[1].password
             THEN Message_new(ResponseType_User(u[1].handle, u[1].addr, u[1].public_key), route)
             ELSE Message_new(ResponseType_Error("Incorrect password."), route)
        ELSE Message_new(ResponseType_Error("User does not exist."), route)

login_response(username, password, u, usr_ip, key) ==
    LET route == gen_route(usr_ip, key)
    IN  IF u # <<>>
        THEN IF password = u[1].password
             THEN Message_new(ResponseType_User(u[1].handle, usr_ip, u[1].public_key), route)
             ELSE Message_new(ResponseType_Error("Incorrect password."), route)
        ELSE Message_new(ResponseType_Error("User does not exist."), route)

\* The success arm forgets the insert.
register_users_no_insert(user, u, us) == us

\* The insert is made in both arms.
register_users_overwrite(user, u, us) == users_insert(us, user.handle, user)

\* The map register_response leaves behind.
register_users(user, u, us) ==
    IF u # <<>> THEN us ELSE users_insert(us, user.handle, user)

register_response(user, u) ==
    LET route == gen_route(user.addr, user.public_key)
    IN  IF u # <<>>
        THEN Message_new(ResponseType_Error("Username already in use."), route)
        ELSE Message_new(ResponseType_User(user.handle, user.addr, user.public_key), route)

\* The error does not name the target.
connect_response_anonymous(name, u, us, ord, route) ==
    IF u # <<>>
    THEN Message_new(ResponseType_Connection(
                        generate_route(us, ord, <<u[1].addr, u[1].public_key>>)), route)
    ELSE Message_new(ResponseType_Error("Could not find user."), route)

\* The relay path starts at the requester's own hop.
connect_response_from_requester(name, u, us, ord, route) ==
    IF u # <<>>
    THEN Message_new(ResponseType_Connection(generate_route(us, ord, route[1])), route)
    ELSE Message_new(ResponseType_Error("Could not find user " \o name \o "."), route)

connect_response(name, u, us, ord, route) ==
    IF u # <<>>
    THEN Message_new(ResponseType_Connection(
                        generate_route(us, ord, <<u[1].addr, u[1].public_key>>)), route)
    ELSE Message_new(ResponseType_Error("Could not find user " \o name \o "."), route)

\* A lock() that never waits: the check-then-insert is no longer atomic.
lock_free_unguarded(m) == TRUE

\* Mutex::lock() returns once no other thread holds the guard.
lock_free(m) == m = 0

----------------------------------------------------------------------------
(* Initial states *)

\* Byte values are 0 .. ByteBase-1; the model's bytes stand for the 256
\* values of a u8, so that the largest length of the field stays small.
ByteBase == 4

\* size_buf: [u8; 4], the 32 bit message size field.
FieldBytes == 4

RECURSIVE Pow(_, _)
Pow(b, e) == IF e = 0 THEN 1 ELSE b * Pow(b, e - 1)

\* u32::max_value(): the largest value the size field holds.
u32_max == Pow(ByteBase, FieldBytes) - 1

\* res.data.len() as u32
as_u32(n) == n % (u32_max + 1)

\* mem::transmute of a u32 to its FieldBytes bytes (the host's byte order,
\* least significant first; both directions use the same order).
transmute_bytes(n) == [i \in 1..FieldBytes |-> (n \div Pow(ByteBase, i - 1)) % ByteBase]

RECURSIVE transmute_u32(_)
transmute_u32(b) ==
    IF b = <<>> THEN 0 ELSE b[1] + ByteBase * transmute_u32(Tail(b))

\* send_response: nothing is written for data of u32::max_value() bytes or
\* more; otherwise the size field and then the data are written.
send_response(data) ==
    IF Len(data) >= u32_max THEN <<>>
    ELSE transmute_bytes(as_u32(Len(data))) \o data

NoRead == [tag |-> "none", data |-> <<>>]

\* The framing of receive_message: read_exact of the size field, then
\* read_exact of msg_size bytes; either unwrap panics on a short stream.
read_frame(stream) ==
    IF Len(stream) < FieldBytes THEN [tag |-> "panic", data |-> <<>>]
    ELSE LET msg_size == transmute_u32(SubSeq(stream, 1, FieldBytes))
         IN  IF Len(stream) - FieldBytes < msg_size
             THEN [tag |-> "panic", data |-> <<>>]
             ELSE [tag |-> "ok",
                   data |-> SubSeq(stream, FieldBytes + 1, FieldBytes + msg_size)]

\* Payloads of every length up to one more than the size field holds.
Payloads ==
    {[i \in 1..n |-> (i + k) % ByteBase] : n \in 0..(u32_max + 1), k \in 0..(ByteBase - 1)}

InitConns ==
    /\ mutex = 0
    /\ pc = [c \in Conns |-> "idle"]
    /\ peer = [c \in Conns |-> ""]
    /\ req = [c \in Conns |-> NoFrame]
    /\ found = [c \in Conns |-> <<>>]
    /\ snap = [c \in Conns |-> EmptyMap]
    /\ prior = [c \in Conns |-> {}]
    /\ resp = [c \in Conns |-> NoMessage]
    /\ sent = [c \in Conns |-> NoMessage]

InitBoot ==
    /\ bst = [b \in BootConns |-> "idle"]
    /\ bpc = "accept"
    /\ bpeer = ""
    /\ breq = NoFrame
    /\ bsent = NoMessage

\* main(): let users = Arc::new(Mutex::new(HashMap::new()))
\* No frame is followed byte by byte.
InitNoFrame ==
    /\ fpc = "off"
    /\ fdata = <<>>
    /\ wire = <<>>
    /\ fgot = NoRead

Init ==
    /\ users = EmptyMap
    /\ order = <<>>
    /\ InitConns
    /\ InitBoot
    /\ InitNoFrame

\* The host each user of a SpecRoute directory registered from.
HomeOf(h) == IF h \in {"alice", "carol"} THEN "10.0.0.1" ELSE "10.0.0.2"

\* Directories that Register requests can have built.
RouteDirs ==
    {[h \in S |-> KnownUser_new(h, "pw1", addr_to_string(HomeOf(h)), ClientKey(HomeOf(h)))]
        : S \in SUBSET RouteHandles}

InitRoute ==
    /\ users \in RouteDirs
    /\ order \in Perms(DOMAIN users)
    /\ InitConns
    /\ InitBoot
    /\ InitNoFrame

----------------------------------------------------------------------------
(* The main endpoint: main()'s accept loop and handler() *)

\* server.incoming(): a connection is accepted and its thread spawned.
main_accept(c, ips) ==
    /\ pc[c] = "idle"
    /\ \E ip \in ips : peer' = [peer EXCEPT ![c] = ip]
    /\ pc' = [pc EXCEPT ![c] = "recv"]
    /\ prior' = [prior EXCEPT ![c] = {d \in Conns : pc[d] \in {"done", "aborted"}}]
    /\ UNCHANGED <<users, order, mutex, req, found, snap, resp, sent>>
    /\ UNCHANGED bootVars
    /\ UNCHANGED frameVars

\* handler(): receive_message, then create_response's match on the variant.
\* A panic of either unwrap ends the thread; nothing is sent.
handler_receive(c, frames) ==
    /\ pc[c] = "recv"
    /\ \E f \in FramesFrom(peer[c], frames) :
         /\ req' = [req EXCEPT ![c] = f]
         /\ pc' = [pc EXCEPT ![c] =
                     IF receive_message(f) = "panic" \/ create_response(f) = "Err"
                     THEN "aborted" ELSE "lock"]
    /\ UNCHANGED <<users, order, mutex, peer, found, snap, prior, resp, sent>>
    /\ UNCHANGED bootVars
    /\ UNCHANGED frameVars

\* users.lock().unwrap() and users.get(..) of the three response functions.
handler_lock(c) ==
    /\ pc[c] = "lock"
    /\ lock_free(mutex)
    /\ mutex' = c
    /\ found' = [found EXCEPT ![c] = users_get(users, req[c].handle)]
    /\ snap' = [snap EXCEPT ![c] = users]
    /\ pc' = [pc EXCEPT ![c] = "locked"]
    /\ UNCHANGED <<users, order, peer, req, prior, resp, sent>>
    /\ UNCHANGED bootVars
    /\ UNCHANGED frameVars

\* The guard outlives the response function.
guard_dropped_late(m) == m

\* The guard is dropped by an unwinding thread: the Mutex stays poisoned.
guard_dropped_poisoned(m) == -1

\* The MutexGuard is dropped where the response function returns.
guard_dropped(m) == 0

\* The match arm of the response function, up to the drop of the guard.
handler_respond(c) ==
    /\ pc[c] = "locked"
    /\ LET m == req[c]
           addr == addr_to_string(peer[c])
           user == KnownUser_new(m.handle, m.password, addr, m.key)
       IN  /\ resp' = [resp EXCEPT ![c] =
                 CASE m.kind = "Login" ->
                        login_response(m.handle, m.password, found[c], addr, m.key)
                   [] m.kind = "Register" ->
                        register_response(user, found[c])
                   [] OTHER ->
                        connect_response(m.handle, found[c], users, order,
                                         gen_route(addr, m.key))]
           /\ users' = IF m.kind = "Register" THEN register_users(user, found[c], users)
                       ELSE users
           \* an insert of a new key may move every entry of the table
           /\ order' \in IF DOMAIN users' = DOMAIN users THEN {order}
                         ELSE Perms(DOMAIN users')
    /\ mutex' = guard_dropped(mutex)
    /\ pc' = [pc EXCEPT ![c] = "send"]
    /\ UNCHANGED <<peer, req, found, snap, prior, sent>>
    /\ UNCHANGED bootVars
    /\ UNCHANGED frameVars

\* send_response(stream, response)
handler_send(c) ==
    /\ pc[c] = "send"
    /\ sent' = [sent EXCEPT ![c] = resp[c]]
    /\ pc' = [pc EXCEPT ![c] = "done"]
    /\ UNCHANGED <<users, order, mutex, peer, req, found, snap, prior, resp>>
    /\ UNCHANGED bootVars
    /\ UNCHANGED frameVars

\* The thread has ended and the stream is dropped.
handler_close(c) ==
    /\ pc[c] \in {"done", "aborted"}
    /\ pc' = [pc EXCEPT ![c] = "idle"]
    /\ peer' = [peer EXCEPT ![c] = ""]
    /\ req' = [req EXCEPT ![c] = NoFrame]
    /\ found' = [found EXCEPT ![c] = <<>>]
    /\ snap' = [snap EXCEPT ![c] = EmptyMap]
    /\ prior' = [d \in Conns |-> IF d = c THEN {} ELSE prior[d] \ {c}]
    /\ resp' = [resp EXCEPT ![c] = NoMessage]
    /\ sent' = [sent EXCEPT ![c] = NoMessage]
    /\ UNCHANGED <<users, order, mutex>>
    /\ UNCHANGED bootVars
    /\ UNCHANGED frameVars

----------------------------------------------------------------------------
(* The bootstrap endpoint: main()'s second loop and pub_key_handler() *)

BootFrames == PublicKeyFrames \cup {Frame("Login", "alice", "pw1", "keyA")}
                \cup {Frame(kind, "", "", "") : kind \in {"Truncated", "Undecodable", "ToUser"}}

\* A client connects to PUB_KEY_ADDR; the connection waits in the listener.
boot_connect(b) ==
    /\ bst[b] = "idle"
    /\ bst' = [bst EXCEPT ![b] = "waiting"]
    /\ UNCHANGED <<bpc, bpeer, breq, bsent>>
    /\ UNCHANGED mainVars
    /\ UNCHANGED frameVars

\* Every bootstrap connection is taken as soon as it arrives.
loop_at_incoming_always(p) == TRUE

\* The loop is back at incoming() only when pub_key_handler has returned.
loop_at_incoming(p) == p = "accept"

\* TcpListener::bind(PUB_KEY_ADDR).incoming(): the next waiting connection
\* is taken and handled in the loop's own thread.
pub_key_accept(ips) ==
    /\ loop_at_incoming(bpc)
    /\ \E b \in BootConns :
         /\ bst[b] = "waiting"
         /\ bst' = [bst EXCEPT ![b] = "handling"]
    /\ \E ip \in ips : bpeer' = ip
    /\ bpc' = "recv"
    /\ breq' = NoFrame
    /\ bsent' = NoMessage
    /\ UNCHANGED mainVars
    /\ UNCHANGED frameVars

\* The requester's key is sent back instead of the server's.
pub_key_response_echo(frame, usr_ip) ==
    IF frame.kind = "PublicKey"
    THEN Message_new(ResponseType_PublicKey(frame.key), gen_route(usr_ip, frame.key))
    ELSE NoMessage

\* What pub_key_handler writes: a reply to PublicKey, nothing otherwise.
pub_key_response(frame, usr_ip) ==
    IF frame.kind = "PublicKey"
    THEN Message_new(ResponseType_PublicKey(pub_key), gen_route(usr_ip, frame.key))
    ELSE NoMessage

\* pub_key_handler(): a panic of receive_unencrypted_message_type unwinds the
\* thread that runs the loop.
pub_key_handler(frames) ==
    /\ bpc = "recv"
    /\ \E f \in FramesFrom(bpeer, frames) :
         /\ breq' = f
         /\ IF receive_unencrypted_message_type(f) = "panic"
            THEN /\ bpc' = "dead"
                 /\ bsent' = bsent
            ELSE /\ bpc' = "accept"
                 /\ bsent' = pub_key_response(f, addr_to_string(bpeer))
    \* the stream is dropped when the handler returns or unwinds
    /\ \E b \in BootConns :
         /\ bst[b] = "handling"
         /\ bst' = [bst EXCEPT ![b] = "idle"]
    /\ UNCHANGED bpeer
    /\ UNCHANGED mainVars
    /\ UNCHANGED frameVars

----------------------------------------------------------------------------
(* Specifications *)

Next ==
    \E c \in Conns :
        \/ main_accept(c, IPs)
        \/ handler_receive(c, MainFrames)
        \/ handler_lock(c)
        \/ handler_respond(c)
        \/ handler_send(c)
        \/ handler_close(c)

Spec == Init /\ [][Next]_vars

\* Connect requests of SpecRoute: a target registered from each host
\* (carol stands to alice, and dave to bob, as a further record of that host).
RouteFrames == ConnectFrames(Handles)

NextRoute ==
    \E c \in Conns :
        \/ main_accept(c, IPs)
        \/ handler_receive(c, RouteFrames)
        \/ handler_lock(c)
        \/ handler_respond(c)
        \/ handler_send(c)
        \/ handler_close(c)

SpecRoute == InitRoute /\ [][NextRoute]_vars

BootMainFrames == RegisterFrames({"alice"}) \cup PublicKeyFrames
                    \cup {Frame("Undecryptable", "", "", "")}

\* SpecBoot follows one bootstrap client at a time beside the main endpoint.
OneBootConn == {1}

NextBoot ==
    \/ \E b \in OneBootConn : boot_connect(b)
    \/ pub_key_accept(IPs)
    \/ pub_key_handler(BootFrames)
    \/ \E c \in Conns :
        \/ main_accept(c, IPs)
        \/ handler_receive(c, BootMainFrames)
        \/ handler_lock(c)
        \/ handler_respond(c)
        \/ handler_send(c)
        \/ handler_close(c)

SpecBoot == Init /\ [][NextBoot]_vars

\* SpecFrame: one payload is written by send_response and read back.
InitFrame ==
    /\ users = EmptyMap
    /\ order = <<>>
    /\ InitConns
    /\ InitBoot
    /\ fpc = "write"
    /\ fdata \in Payloads
    /\ wire = <<>>
    /\ fgot = NoRead

\* send_response(stream, response) on response.data = fdata
frame_send ==
    /\ fpc = "write"
    /\ wire' = send_response(fdata)
    /\ fpc' = "read"
    /\ UNCHANGED <<fdata, fgot>>
    /\ UNCHANGED <<mainVars, bootVars>>

\* The peer reads one frame off the stream, which the sender has dropped.
frame_receive ==
    /\ fpc = "read"
    /\ fgot' = read_frame(wire)
    /\ fpc' = "done"
    /\ UNCHANGED <<fdata, wire>>
    /\ UNCHANGED <<mainVars, bootVars>>

NextFrame == frame_send \/ frame_receive

SpecFrame == InitFrame /\ [][NextFrame]_vars

\* SpecLive: one host sends well-formed requests about one handle.  The
\* threads are scheduled fairly: a handler step that stays possible is
\* taken.  Clients are free never to connect and never to send, and
\* std::sync::Mutex promises no order among the threads that wait for it.
LiveFrames ==
    {Frame("Register", "alice", "pw1", "keyA"), Frame("Login", "alice", "pw1", "keyA"),
     Frame("Connect", "alice", "", "keyA")}

LiveIPs == {"10.0.0.1"}

NextLive ==
    \E c \in Conns :
        \/ main_accept(c, LiveIPs)
        \/ handler_receive(c, LiveFrames)
        \/ handler_lock(c)
        \/ handler_respond(c)
        \/ handler_send(c)
        \/ handler_close(c)

FairThreads ==
    \A c \in Conns :
        /\ WF_vars(handler_lock(c))
        /\ WF_vars(handler_respond(c))
        /\ WF_vars(handler_send(c))
        /\ WF_vars(handler_close(c))

SpecLive == Init /\ [][NextLive]_vars /\ FairThreads

\* SpecQueue: several clients at the bootstrap endpoint while one host
\* registers at the main endpoint.
QueueIPs == {"10.0.0.1"}

QueueBootFrames == PublicKeyFrames \cup {Frame("Truncated", "", "", "")}

QueueMainFrames == RegisterFrames({"alice"})

NextQueue ==
    \/ \E b \in BootConns : boot_connect(b)
    \/ pub_key_accept(QueueIPs)
    \/ pub_key_handler(QueueBootFrames)
    \/ \E c \in Conns :
        \/ main_accept(c, QueueIPs)
        \/ handler_receive(c, QueueMainFrames)
        \/ handler_lock(c)
        \/ handler_respond(c)
        \/ handler_send(c)
        \/ handler_close(c)

SpecQueue == Init /\ [][NextQueue]_vars

----------------------------------------------------------------------------
(* Vocabulary of the properties *)

\* The handler of connection c has built its response.
Answered(c) == pc[c] \in {"send", "done"}

AnsweredAs(c, kind) == Answered(c) /\ req[c].kind = kind

Outcome(c) == resp[c].outcome

\* The address the server observes for connection c.
Observed(c) == addr_to_string(peer[c])

----------------------------------------------------------------------------
(* C1: among the handlers that have answered a Register for one handle, at  *)
(* most one answered User and every other answered Error("Username already  *)
(* in use."); if one of them found the handle absent, exactly one answered  *)
(* User.  The directory never holds two records with the same handle.       *)
C1_RegisterUnique ==
    /\ \A h \in Handles :
         LET R == {c \in Conns : AnsweredAs(c, "Register") /\ req[c].handle = h}
             W == {c \in R : Outcome(c).tag = "User"}
         IN  /\ Cardinality(W) <= 1
             /\ \A c \in R \ W : Outcome(c) = ResponseType_Error("Username already in use.")
             /\ (\E c \in R : h \notin DOMAIN snap[c]) => Cardinality(W) = 1
    /\ \A k1, k2 \in DOMAIN users : users[k1].handle = users[k2].handle => k1 = k2

\* Two handlers have answered a Register for the same handle, one of them
\* with success and the other with the error, and at least one of them was
\* received while the other was between its receive and its send.
C1_Witness ==
    \E c1, c2 \in Conns :
        /\ c1 # c2
        /\ AnsweredAs(c1, "Register") /\ AnsweredAs(c2, "Register")
        /\ req[c1].handle = req[c2].handle
        /\ Outcome(c1).tag = "User"
        /\ Outcome(c2) = ResponseType_Error("Username already in use.")
        /\ c1 \notin prior[c2] /\ c2 \notin prior[c1]

----------------------------------------------------------------------------
(* C2: the step in which a handler answers a Register for a handle absent   *)
(* from the directory adds exactly the record {handle, credential, observed *)
(* address, key} under that handle, changes no other entry and builds       *)
(* User(handle, observed address, key); that response is the frame sent.    *)
C2_RegisterStep ==
    \A c \in Conns :
        (/\ pc[c] = "locked" /\ pc'[c] = "send"
         /\ req[c].kind = "Register"
         /\ req[c].handle \notin DOMAIN users)
        => LET h == req[c].handle
           IN  /\ DOMAIN users' = DOMAIN users \cup {h}
               /\ users'[h] = [handle |-> h, password |-> req[c].password,
                               addr |-> Observed(c), public_key |-> req[c].key]
               /\ \A k \in DOMAIN users : users'[k] = users[k]
               /\ resp'[c].outcome = ResponseType_User(h, Observed(c), req[c].key)

C2_RegisterSent ==
    \A c \in Conns :
        (pc[c] = "done" /\ req[c].kind = "Register" /\ req[c].handle \notin DOMAIN snap[c])
        => sent[c].outcome = ResponseType_User(req[c].handle, Observed(c), req[c].key)

\* C2: every step satisfies C2_RegisterStep and every state C2_RegisterSent:
\* a Register for an absent handle inserts exactly its record and is
\* answered User(handle, observed address, key).
C2_RegisterInserts == [][C2_RegisterStep]_vars /\ []C2_RegisterSent

\* A Register for an absent handle has been answered and sent while the
\* directory already held another record.
C2_Witness ==
    \E c \in Conns :
        /\ pc[c] = "done" /\ req[c].kind = "Register"
        /\ req[c].handle \notin DOMAIN snap[c]
        /\ DOMAIN snap[c] # {}
        /\ req[c].handle \in DOMAIN users
        /\ sent[c].outcome.tag = "User"

----------------------------------------------------------------------------
(* C3: a Register for a handle already in the directory is answered         *)
(* Error("Username already in use.") and the record it found stays as it    *)
(* was; a Login accepted after that answer succeeds with the original       *)
(* credential and gets Error("Incorrect password.") with any other, the     *)
(* rejected request's included.                                             *)
C3_RejectedRegister ==
    \A c2 \in Conns :
        (AnsweredAs(c2, "Register") /\ req[c2].handle \in DOMAIN snap[c2])
        => LET h == req[c2].handle
               orig == snap[c2][h]
           IN  /\ Outcome(c2) = ResponseType_Error("Username already in use.")
               /\ h \in DOMAIN users
               /\ users[h] = orig
               /\ \A c \in Conns :
                    (AnsweredAs(c, "Login") /\ req[c].handle = h /\ c2 \in prior[c])
                    => IF req[c].password = orig.password
                       THEN Outcome(c).tag = "User"
                       ELSE Outcome(c) = ResponseType_Error("Incorrect password.")

\* A Register carrying another credential, address and key was rejected, and
\* a Login accepted afterwards with the original credential succeeded.
C3_Witness ==
    \E c, c2 \in Conns :
        /\ pc[c2] = "done" /\ req[c2].kind = "Register"
        /\ req[c2].handle \in DOMAIN snap[c2]
        /\ req[c2].password # snap[c2][req[c2].handle].password
        /\ Observed(c2) # snap[c2][req[c2].handle].addr
        /\ req[c2].key # snap[c2][req[c2].handle].public_key
        /\ pc[c] = "done" /\ req[c].kind = "Login"
        /\ req[c].handle = req[c2].handle
        /\ c2 \in prior[c]
        /\ req[c].password = snap[c2][req[c2].handle].password
        /\ sent[c].outcome.tag = "User"

----------------------------------------------------------------------------
(* C4: the answer to Login(handle, credential) is decided by the directory  *)
(* as it was when the handler took the lock: User(view of the record) iff   *)
(* the handle is registered and the credential equals the stored one,       *)
(* Error("Incorrect password.") iff it is registered and the credential     *)
(* differs, Error("User does not exist.") iff it is not registered.          *)
C4_LoginOutcomes ==
    \A c \in Conns :
        AnsweredAs(c, "Login")
        => LET h == req[c].handle
               d == snap[c]
               o == Outcome(c)
               registered == h \in DOMAIN d
               matches == registered /\ req[c].password = d[h].password
           IN  /\ o.tag = "User" <=> matches
               /\ o.tag = "User" =>
                    o = ResponseType_User(d[h].handle, Observed(c), d[h].public_key)
               /\ o = ResponseType_Error("Incorrect password.") <=> (registered /\ ~matches)
               /\ o = ResponseType_Error("User does not exist.") <=> ~registered

\* The two slots hold answered Logins for one registered handle, one with
\* the stored credential and one with another.
C4_Witness ==
    \E c1, c2 \in Conns :
        /\ AnsweredAs(c1, "Login") /\ AnsweredAs(c2, "Login")
        /\ req[c1].handle = req[c2].handle
        /\ req[c1].handle \in DOMAIN snap[c1] \cap DOMAIN snap[c2]
        /\ Outcome(c1).tag = "User"
        /\ Outcome(c2) = ResponseType_Error("Incorrect password.")

----------------------------------------------------------------------------
(* C5: a successful Login answers with the requester's observed address and *)
(* the stored key, and leaves the stored record as it found it; a Connect   *)
(* to that handle accepted after the Login's answer has route[0] equal to   *)
(* the stored (address, key).                                               *)
C5_LoginReadOnly ==
    \A c1 \in Conns :
        (AnsweredAs(c1, "Login") /\ Outcome(c1).tag = "User")
        => LET h == req[c1].handle
               stored == snap[c1][h]
           IN  /\ Outcome(c1).addr = Observed(c1)
               /\ Outcome(c1).public_key = stored.public_key
               /\ h \in DOMAIN users
               /\ users[h] = stored
               /\ \A c2 \in Conns :
                    (AnsweredAs(c2, "Connect") /\ req[c2].handle = h /\ c1 \in prior[c2])
                    => /\ Outcome(c2).tag = "Connection"
                       /\ Outcome(c2).route[1] = <<stored.addr, stored.public_key>>

\* A Login from another address than the stored one succeeded, and a Connect
\* to the same handle accepted afterwards has been answered.
C5_Witness ==
    \E c1, c2 \in Conns :
        /\ pc[c1] = "done" /\ req[c1].kind = "Login"
        /\ sent[c1].outcome.tag = "User"
        /\ Observed(c1) # snap[c1][req[c1].handle].addr
        /\ pc[c2] = "done" /\ req[c2].kind = "Connect"
        /\ req[c2].handle = req[c1].handle
        /\ c1 \in prior[c2]
        /\ sent[c2].outcome.tag = "Connection"
        /\ sent[c2].outcome.route[1][1] # Observed(c1)

----------------------------------------------------------------------------
(* Vocabulary of the Connect properties *)

\* Connection c has been answered a Connect whose target was registered
\* when its handler took the lock.
ConnectedTo(c) == AnsweredAs(c, "Connect") /\ req[c].handle \in DOMAIN snap[c]

\* The (address, key) of handle h in directory d.
HopOf(d, h) == <<d[h].addr, d[h].public_key>>

Injective(f) == \A i, j \in DOMAIN f : f[i] = f[j] => i = j

----------------------------------------------------------------------------
(* C6: a Connect to a registered target is answered Connection(route) with  *)
(* route[0] the target's stored (address, key), and two Connects to the     *)
(* same target against the same directory get the same route.               *)
C6_ConnectDeterministic ==
    /\ \A c \in Conns :
         ConnectedTo(c)
         => /\ Outcome(c).tag = "Connection"
            /\ Outcome(c).route[1] = HopOf(snap[c], req[c].handle)
    /\ \A c1, c2 \in Conns :
         (/\ ConnectedTo(c1) /\ ConnectedTo(c2)
          /\ req[c1].handle = req[c2].handle
          /\ snap[c1] = snap[c2])
         => Outcome(c1) = Outcome(c2)

\* Two requesters at different addresses have been answered a Connect to the
\* same target against a directory of more than three records.
C6_Witness ==
    \E c1, c2 \in Conns :
        /\ c1 # c2
        /\ ConnectedTo(c1) /\ ConnectedTo(c2)
        /\ req[c1].handle = req[c2].handle
        /\ peer[c1] # peer[c2]
        /\ snap[c1] = snap[c2]
        /\ Cardinality(DOMAIN snap[c1]) > 3
        /\ Len(Outcome(c1).route) = 4

----------------------------------------------------------------------------
(* C7 as claimed: at most 3 hops follow element 0 and none of them is the   *)
(* target's own (address, key).                                             *)
C7_TargetNeverRepeated ==
    \A c \in Conns :
        ConnectedTo(c)
        => LET r == Outcome(c).route
           IN  /\ Len(r) - 1 <= 3
               /\ \A i \in 2..Len(r) : r[i] # HopOf(snap[c], req[c].handle)

(* C7 amended: at most 3 hops follow element 0, each the (address, key) of  *)
(* a directory entry, the target's own not excluded: it appears again       *)
(* whenever the directory holds at most 3 records.                          *)
C7_TargetNotExcluded ==
    \A c \in Conns :
        ConnectedTo(c)
        => LET r == Outcome(c).route
               d == snap[c]
           IN  /\ Len(r) - 1 <= 3
               /\ \A i \in 2..Len(r) : \E h \in DOMAIN d : r[i] = HopOf(d, h)
               /\ Cardinality(DOMAIN d) <= 3
                    => \E i \in 2..Len(r) : r[i] = HopOf(d, req[c].handle)

\* A Connect answered against a directory of two records with different
\* (address, key): the target's hop is both element 0 and a later element.
C7_Witness ==
    \E c \in Conns :
        /\ ConnectedTo(c)
        /\ Cardinality({HopOf(snap[c], h) : h \in DOMAIN snap[c]}) = 2
        /\ Cardinality(DOMAIN snap[c]) = 2
        /\ \E i \in 2..Len(Outcome(c).route) :
             Outcome(c).route[i] = Outcome(c).route[1]

----------------------------------------------------------------------------
(* C8: the route of a Connect to a registered target has length             *)
(* 1 + min(3, number of records), and the hops after element 0 are the      *)
(* (address, key) of pairwise distinct records of the directory.            *)
C8_RouteLength ==
    \A c \in Conns :
        ConnectedTo(c)
        => LET r == Outcome(c).route
               d == snap[c]
           IN  /\ Len(r) = 1 + Min(3, Cardinality(DOMAIN d))
               /\ \E f \in [2..Len(r) -> DOMAIN d] :
                    /\ Injective(f)
                    /\ \A i \in 2..Len(r) : r[i] = HopOf(d, f[i])

\* A Connect answered against a directory of four records: three relays,
\* the record that comes last in the iteration order left out.
C8_Witness ==
    \E c \in Conns :
        /\ ConnectedTo(c)
        /\ Cardinality(DOMAIN snap[c]) = 4
        /\ Len(Outcome(c).route) = 4
        /\ Outcome(c).route[4] = HopOf(snap[c], order[3])

----------------------------------------------------------------------------
(* C9: a Connect whose target is not in the directory leaves the directory  *)
(* as it is and builds Error("Could not find user <target>."), no route,    *)
(* sealed for the requester; that message is the frame sent.                *)
ConnectMiss(c) ==
    [outcome |-> [tag |-> "Error", msg |-> "Could not find user " \o req[c].handle \o "."],
     route |-> << <<Observed(c), req[c].key>> >>]

C9_MissStep ==
    \A c \in Conns :
        (/\ pc[c] = "locked" /\ pc'[c] = "send"
         /\ req[c].kind = "Connect"
         /\ req[c].handle \notin DOMAIN users)
        => /\ users' = users
           /\ order' = order
           /\ resp'[c] = ConnectMiss(c)

C9_MissSent ==
    \A c \in Conns :
        (pc[c] = "done" /\ req[c].kind = "Connect" /\ req[c].handle \notin DOMAIN snap[c])
        => sent[c] = ConnectMiss(c)

\* C9: every step satisfies C9_MissStep and every state C9_MissSent: a
\* Connect to an unregistered target changes nothing in the directory and
\* is answered Error("Could not find user <target>.").
C9_ConnectMiss == [][C9_MissStep]_vars /\ []C9_MissSent

\* A Connect to an unregistered handle has been answered and sent while the
\* directory held another handle.
C9_Witness ==
    \E c \in Conns :
        /\ pc[c] = "done" /\ req[c].kind = "Connect"
        /\ req[c].handle \notin DOMAIN snap[c]
        /\ snap[c] # EmptyMap
        /\ users = snap[c]
        /\ sent[c].outcome.tag = "Error"

----------------------------------------------------------------------------
(* C10: once the bootstrap loop has received a PublicKey request it has     *)
(* written PublicKey(server public key) and is back at accept; a main       *)
(* connection that received PublicKey is aborted with nothing built or      *)
(* sent.                                                                    *)
C10_PublicKey ==
    /\ breq.kind = "PublicKey"
         => /\ bpc = "accept"
            /\ bsent.outcome = [tag |-> "PublicKey", key |-> "serverPub"]
    /\ \A c \in Conns :
         req[c].kind = "PublicKey"
         => /\ pc[c] = "aborted"
            /\ resp[c] = NoMessage
            /\ sent[c] = NoMessage

\* With a record in the directory, the bootstrap loop has answered a
\* PublicKey request and a main connection has received one.
C10_Witness ==
    /\ users # EmptyMap
    /\ breq.kind = "PublicKey"
    /\ bsent.outcome.tag = "PublicKey"
    /\ \E c \in Conns : req[c].kind = "PublicKey" /\ pc[c] = "aborted"

----------------------------------------------------------------------------
(* C11: a main connection whose frame is truncated, undecryptable,          *)
(* undecodable, not a request, or PublicKey is aborted with nothing built   *)
(* or sent and without the lock; the step that aborts it changes nothing of *)
(* the directory, the lock or any other connection; and beside an aborted   *)
(* connection every other connection can take its next step.                *)
FatalKinds == {"Truncated", "Undecryptable", "Undecodable", "ToUser", "PublicKey"}

C11_Aborted ==
    \A c \in Conns :
        /\ req[c].kind \in FatalKinds
             => /\ pc[c] = "aborted"
                /\ resp[c] = NoMessage
                /\ sent[c] = NoMessage
        /\ pc[c] = "aborted"
             => /\ req[c].kind \in FatalKinds
                /\ mutex # c
                /\ \A d \in Conns \ {c} :
                     /\ pc[d] = "idle" => ENABLED main_accept(d, IPs)
                     /\ pc[d] = "recv" => ENABLED handler_receive(d, MainFrames)
                     /\ pc[d] = "lock" =>
                          \/ ENABLED handler_lock(d)
                          \/ \E e \in Conns \ {c, d} : ENABLED handler_respond(e)
                     /\ pc[d] = "locked" => ENABLED handler_respond(d)
                     /\ pc[d] = "send" => ENABLED handler_send(d)

C11_AbortStep ==
    \A c \in Conns :
        (pc[c] # "aborted" /\ pc'[c] = "aborted")
        => /\ users' = users /\ order' = order /\ mutex' = mutex
           /\ \A d \in Conns \ {c} :
                /\ pc'[d] = pc[d] /\ req'[d] = req[d]
                /\ resp'[d] = resp[d] /\ sent'[d] = sent[d]

\* C11: every state satisfies C11_Aborted and every step C11_AbortStep: a
\* fatal frame on the main endpoint is answered by nothing and harms
\* neither the directory nor any other connection.
C11_FatalIsLocal == []C11_Aborted /\ [][C11_AbortStep]_vars

\* Beside a connection aborted while the directory held a record, a
\* connection accepted after the abort has been answered and sent.
C11_Witness ==
    \E c, d \in Conns :
        /\ pc[c] = "aborted"
        /\ users # EmptyMap
        /\ c \in prior[d]
        /\ pc[d] = "done"
        /\ sent[d] # NoMessage

\* ---------------------------------------------------------------------
\* C12 (as stated): on the bootstrap endpoint a truncated or undecodable
\* frame is fatal only to its connection: nothing is sent, the loop is back
\* at incoming(), and a bootstrap connection that waits is still accepted.
C12_BootstrapSurvives ==
    breq.kind \in {"Truncated", "Undecodable"} =>
        /\ bsent = NoMessage
        /\ bpc = "accept"
        /\ (\E b \in BootConns : bst[b] = "waiting") => ENABLED pub_key_accept(IPs)

\* ---------------------------------------------------------------------
\* C13: a connection on which a frame has been written has read its whole
\* request, has built its response, has left the critical section and has
\* ended; the directory operation of a Register it answered with User is
\* in the directory.
C13_Sent ==
    \A c \in Conns :
        sent[c] # NoMessage
        => /\ pc[c] = "done"
           /\ req[c] # NoFrame
           /\ receive_message(req[c]) = "ok"
           /\ sent[c] = resp[c]
           /\ mutex # c
           /\ (req[c].kind = "Register" /\ Outcome(c).tag = "User")
                => req[c].handle \in DOMAIN users

\* The frame of a connection is written once, by a handler that is past its
\* receive and its critical section; a handler that has written receives,
\* locks and writes no more.
C13_SendStep ==
    \A c \in Conns :
        /\ (sent'[c] # sent[c] /\ sent'[c] # NoMessage)
            => /\ sent[c] = NoMessage
               /\ pc[c] = "send" /\ pc'[c] = "done"
               /\ req[c] # NoFrame /\ resp[c] # NoMessage
               /\ mutex # c /\ mutex' = mutex
               /\ users' = users
        /\ sent[c] # NoMessage
            => /\ sent'[c] \in {sent[c], NoMessage}
               /\ pc'[c] \in {"done", "idle"}
               /\ sent'[c] = NoMessage <=> pc'[c] = "idle"

\* C13: every state satisfies C13_Sent and every step C13_SendStep: at most
\* one response frame per connection, written after the request was read
\* and the critical section left.
C13_OneCycle == []C13_Sent /\ [][C13_SendStep]_vars

\* A Register has been answered and its frame written while another handler
\* holds the lock.
C13_Witness ==
    \E c, d \in Conns :
        /\ sent[c] # NoMessage /\ req[c].kind = "Register"
        /\ Outcome(c).tag = "User"
        /\ mutex = d /\ d # c

\* ---------------------------------------------------------------------
(* Vocabulary of C14 *)

\* The bootstrap connections being read or answered.
Handling == {b \in BootConns : bst[b] = "handling"}

\* The handler of main connection d can take its next step.
MainCanStep(d) ==
    /\ pc[d] = "idle" => ENABLED main_accept(d, QueueIPs)
    /\ pc[d] = "recv" => ENABLED handler_receive(d, QueueMainFrames)
    /\ pc[d] = "lock" =>
          \/ ENABLED handler_lock(d)
          \/ \E e \in Conns \ {d} : ENABLED handler_respond(e)
    /\ pc[d] = "locked" => ENABLED handler_respond(d)
    /\ pc[d] = "send" => ENABLED handler_send(d)
    /\ pc[d] \in {"done", "aborted"} => ENABLED handler_close(d)

\* At most one bootstrap connection is in its reading/answering phase, and
\* exactly when the loop is inside pub_key_handler; while it is, no waiting
\* bootstrap connection can be accepted and every main handler can step.
C14_OneAtATime ==
    /\ Cardinality(Handling) <= 1
    /\ bpc = "recv" <=> Handling # {}
    /\ bpc = "recv" =>
          /\ ~ ENABLED pub_key_accept(QueueIPs)
          /\ \A d \in Conns : MainCanStep(d)

\* A bootstrap connection is accepted only when none is being handled, and
\* the one being handled leaves that phase only in the step that receives
\* its frame: while the peer stays silent every other one stays where it is
\* or joins the waiting ones.
C14_Step ==
    \A b \in BootConns :
        /\ (bst[b] = "waiting" /\ bst'[b] = "handling") => Handling = {}
        /\ (bst[b] = "handling" /\ bst'[b] # "handling") => (breq = NoFrame /\ breq' # NoFrame)
        /\ (bst[b] = "waiting" /\ Handling # {}) => bst'[b] = "waiting"

\* C14: every state satisfies C14_OneAtATime and every step C14_Step:
\* bootstrap connections are handled strictly one at a time, a silent peer
\* blocks the later ones, and the main endpoint keeps being served.
C14_BootstrapSerial == []C14_OneAtATime /\ [][C14_Step]_vars

\* A bootstrap peer has sent nothing yet, another bootstrap connection
\* waits behind it, and meanwhile a main connection accepted after another
\* had ended has been answered.
C14_Witness ==
    /\ bpc = "recv" /\ breq = NoFrame
    /\ \E b \in BootConns : bst[b] = "waiting"
    /\ \E c, d \in Conns :
         /\ pc[c] = "done" /\ sent[c] # NoMessage
         /\ d \in prior[c]

\* ---------------------------------------------------------------------
\* C15 (as stated): a payload whose length fits the size field is written
\* as a frame and read back as itself; a payload is refused (nothing is
\* written) only when its length does not fit the field.
C15_RoundTrip ==
    /\ (fpc = "done" /\ Len(fdata) <= u32_max) => fgot = [tag |-> "ok", data |-> fdata]
    /\ (fpc \in {"read", "done"} /\ wire = <<>>) => Len(fdata) > u32_max

\* ---------------------------------------------------------------------
\* The only step that changes the directory is the answer User to a
\* Register for an absent handle; it adds that handle and keeps every
\* record; a step of the bootstrap endpoint leaves the directory alone.
C16_DirectoryStep ==
    /\ users' # users =>
          \E c \in Conns :
              /\ pc[c] = "locked" /\ pc'[c] = "send"
              /\ req[c].kind = "Register"
              /\ req[c].handle \notin DOMAIN users
              /\ resp'[c].outcome.tag = "User"
              /\ DOMAIN users' = DOMAIN users \cup {req[c].handle}
              /\ \A k \in DOMAIN users : users'[k] = users[k]
    /\ bootVars' # bootVars => users' = users

\* Every record is stored under its own handle.
C16_OwnKey == \A k \in DOMAIN users : users[k].handle = k

C17_SealedToStoredKey ==
    \A c \in Conns :
        (AnsweredAs(c, "Login") /\ Outcome(c).tag = "User")
        => resp[c].route = << <<Observed(c), snap[c][req[c].handle].public_key>> >>

\* ---------------------------------------------------------------------
\* Each point at which the handler of c can fail is passed outside the
\* critical section: the step that aborts it, the step that seals its
\* response (Message::new) and the step that sends it.
C18_FailPointStep ==
    \A c \in Conns :
        /\ (pc[c] # "aborted" /\ pc'[c] = "aborted") => (mutex # c /\ mutex' # c)
        /\ (resp[c] = NoMessage /\ resp'[c] # NoMessage) => mutex # c
        /\ (sent[c] = NoMessage /\ sent'[c] # NoMessage) => mutex # c

\* C18 (as stated): no handler aborts while it holds the critical section:
\* frame read, decrypt, decode, variant rejection, sealing and sending all
\* lie outside it, and an aborted handler never holds the lock.
C18_NoAbortInSection ==
    /\ [][C18_FailPointStep]_vars
    /\ [](\A c \in Conns : pc[c] = "aborted" => mutex # c)

\* ---------------------------------------------------------------------
\* C19 (as stated): under fair scheduling every handler that has received
\* a well-formed Login, Register or Connect eventually sends its response
\* and terminates, whatever other handlers do.
C19_EveryHandlerTerminates ==
    \A c \in Conns : (pc[c] = "lock") ~> (pc[c] = "done" /\ sent[c] # NoMessage)

\* The lock is held exactly by the handler inside its response function.
C19_LockHeld ==
    /\ mutex \in Conns \cup {0}
    /\ \A c \in Conns : mutex = c <=> pc[c] = "locked"
    /\ \A c \in Conns : pc[c] = "lock" => (mutex = 0 \/ ENABLED handler_respond(mutex))

\* A handler takes the lock once, between its receive and its response.
C19_LockStep ==
    \A c \in Conns :
        /\ (mutex # c /\ mutex' = c) => (mutex = 0 /\ pc[c] = "lock")
        /\ (mutex = c /\ mutex' # c) => (mutex' = 0 /\ pc'[c] = "send")
        /\ pc[c] \in {"send", "done"} => mutex' # c

\* C19 (amended): the lock is held only by a handler inside its response
\* function, each handler takes it once and releases it, a handler that
\* holds it sends and terminates, and the lock is free again and again; a
\* handler that waits for it sends and terminates if the lock is handed
\* over fairly (a waiting handler that can take it again and again does).
C19_FairLockTerminates ==
    /\ []C19_LockHeld
    /\ [][C19_LockStep]_vars
    /\ \A c \in Conns : (pc[c] = "locked") ~> (pc[c] = "done" /\ sent[c] # NoMessage)
    /\ \A c \in Conns : (pc[c] = "lock") ~> (mutex = 0)
    /\ \A c \in Conns :
          SF_vars(handler_lock(c)) =>
              ((pc[c] = "lock") ~> (pc[c] = "done" /\ sent[c] # NoMessage))

\* A handler waits for the lock that another handler holds, after an
\* earlier connection was served.
C19_Witness ==
    \E c, d \in Conns :
        /\ pc[c] = "lock" /\ mutex = d /\ d # c
        /\ users # EmptyMap

\* ---------------------------------------------------------------------
\* The requester's observed address is that of a record of directory d.
RegisteredIn(c, d) == \E h \in DOMAIN d : d[h].addr = Observed(c)

\* C20: two answered Connects for the same target against the same
\* directory have the same Outcome, hit or miss, whatever the requesters'
\* addresses and keys are and whether or not the requesters are in the
\* directory; the requester's address and key are exactly the one hop the
\* response is sealed against.
C20_ConnectByTargetOnly ==
    /\ \A c1, c2 \in Conns :
         (/\ AnsweredAs(c1, "Connect") /\ AnsweredAs(c2, "Connect")
          /\ req[c1].handle = req[c2].handle
          /\ snap[c1] = snap[c2])
         => /\ Outcome(c1) = Outcome(c2)
            /\ Outcome(c1).tag = "Connection" <=> req[c1].handle \in DOMAIN snap[c1]
    /\ \A c \in Conns :
         AnsweredAs(c, "Connect")
         => resp[c].route = << <<Observed(c), req[c].key>> >>

\* Two Connects to one registered target have been answered against the
\* same directory, one from the address of a record and one from an
\* address of no record, with different keys and different sealing routes.
C20_Witness ==
    \E c1, c2 \in Conns :
        /\ ConnectedTo(c1) /\ ConnectedTo(c2)
        /\ req[c1].handle = req[c2].handle
        /\ snap[c1] = snap[c2]
        /\ Observed(c1) # Observed(c2)
        /\ req[c1].key # req[c2].key
        /\ RegisteredIn(c1, snap[c1]) /\ ~ RegisteredIn(c2, snap[c2])
        /\ resp[c1].route # resp[c2].route
        /\ Outcome(c1) = Outcome(c2)

====
